---- MODULE Spec2Model ----
(***************************************************************************)
(* Model of the LP-file generators of dpa-completeness-checker:            *)
(*   generate_lp_files.py         per-requirement fact extraction  ("lp")  *)
(*   generate_direct_lp_files.py  satisfaction-set classification ("direct")*)
(*   generate_rcv_lp_files.py     classify-then-verify             ("rcv") *)
(*                                                                         *)
(* Text is modelled as a sequence of tokens.  A token is a lexical unit    *)
(* the code distinguishes (a separator, a marker, a name, a fixed string   *)
(* of the output); str.split, str.strip, startswith, slicing and the       *)
(* regular expressions are computed on these sequences as the code         *)
(* computes them on characters.                                            *)
(***************************************************************************)
EXTENDS Integers, Sequences, FiniteSets, TLC

VARIABLES
    variant,            \* which of the three scripts runs
    pc,                 \* position of main / process_dpa_segments
    requirements,       \* the loaded requirement table (ordered dict)
    segments,           \* rows of the CSV that belong to the target DPA
    serverUp,           \* what OllamaClient.check_health() will answer
    seg_idx,            \* loop position over the rows (1-based)
    req_idx,            \* loop position over the requirements (1-based)
    satisfied_req_ids,  \* direct: result of classify_segment_satisfaction
    classified_id,      \* rcv: result of classify_segment
    cls,                \* classification exchange for the current row
    ext,                \* fact-extraction exchange of the current iteration, if any
    out,                \* artifact generated in the current iteration, if any, and
                        \* what it was made from
    written,            \* number of writes per artifact location
    log                 \* trace of health checks, generate calls and writes

vars == <<variant, pc, requirements, segments, serverUp, seg_idx, req_idx,
          satisfied_req_ids, classified_id, cls, ext, out, written, log>>

----------------------------------------------------------------------------
(* Bounds of the model *)

MaxSegments == 2        \* rows of the target DPA
MaxBody == 2            \* body terms of a symbolic rule
MaxFacts == 2           \* tokens of a fact-extraction response

----------------------------------------------------------------------------
(* Python string primitives on token sequences *)

NL == "\n"
BSB == "\\b"            \* the two characters backslash, b

IsSpace(t) == t \in {" ", NL}

RECURSIVE lstrip(_)
lstrip(s) == IF s # <<>> /\ IsSpace(Head(s)) THEN lstrip(Tail(s)) ELSE s

RECURSIVE rstrip(_)
rstrip(s) ==
    IF s # <<>> /\ IsSpace(s[Len(s)]) THEN rstrip(SubSeq(s, 1, Len(s) - 1)) ELSE s

strip(s) == rstrip(lstrip(s))

contains(s, tok) == \E k \in 1..Len(s) : s[k] = tok

\* s.split(sep): the pieces between the occurrences of sep, empty pieces kept
RECURSIVE split(_, _)
split(s, sep) ==
    IF ~contains(s, sep) THEN <<s>>
    ELSE LET k == CHOOSE k \in 1..Len(s) :
                    s[k] = sep /\ \A m \in 1..(k - 1) : s[m] # sep
         IN  <<SubSeq(s, 1, k - 1)>> \o split(SubSeq(s, k + 1, Len(s)), sep)

\* s.split(): the maximal runs of non-whitespace
RECURSIVE split_ws(_)
split_ws(s) ==
    LET t == lstrip(s) IN
    IF t = <<>> THEN <<>>
    ELSE IF \A k \in 1..Len(t) : ~IsSpace(t[k]) THEN <<t>>
    ELSE LET k == CHOOSE k \in 1..Len(t) :
                    IsSpace(t[k]) /\ \A m \in 1..(k - 1) : ~IsSpace(t[m])
         IN  <<SubSeq(t, 1, k - 1)>> \o split_ws(SubSeq(t, k + 1, Len(t)))

RECURSIVE concat(_)
concat(ss) == IF ss = <<>> THEN <<>> ELSE Head(ss) \o concat(Tail(ss))

RECURSIVE join(_, _)
join(ss, sep) ==
    IF ss = <<>> THEN <<>>
    ELSE IF Len(ss) = 1 THEN ss[1]
    ELSE ss[1] \o <<sep>> \o join(Tail(ss), sep)

Range(f) == { f[x] : x \in DOMAIN f }

\* all sequences over S of length 1..n
RECURSIVE SeqsUpTo(_, _)
SeqsUpTo(S, n) ==
    IF n = 0 THEN {}
    ELSE LET shorter == SeqsUpTo(S, n - 1)
         IN  { <<x>> : x \in S } \cup shorter \cup
             { Append(q, x) : q \in shorter, x \in S }

----------------------------------------------------------------------------
(* filter_think_sections: identical text in the three scripts *)

OpenTags == {"<think>", "<THINK>"}
CloseTags == {"</think>", "</THINK>"}

\* re.sub(r'<think>.*?</think>', '', text, flags=DOTALL | IGNORECASE)
RECURSIVE remove_think(_)
remove_think(s) ==
    IF ~\E i \in 1..Len(s) : s[i] \in OpenTags THEN s
    ELSE LET i == CHOOSE i \in 1..Len(s) :
                    s[i] \in OpenTags /\ \A m \in 1..(i - 1) : s[m] \notin OpenTags
         IN  IF ~\E j \in (i + 1)..Len(s) : s[j] \in CloseTags THEN s
             ELSE LET j == CHOOSE j \in (i + 1)..Len(s) :
                             s[j] \in CloseTags
                             /\ \A m \in (i + 1)..(j - 1) : s[m] \notin CloseTags
                  IN  SubSeq(s, 1, i - 1) \o remove_think(SubSeq(s, j + 1, Len(s)))

\* re.sub(r'\n\s*\n', '\n', s): in a run of whitespace, the stretch from its
\* first newline to its last newline becomes one newline
RECURSIVE collapse_blank(_)
collapse_blank(s) ==
    IF s = <<>> THEN <<>>
    ELSE IF Head(s) # NL THEN <<Head(s)>> \o collapse_blank(Tail(s))
    ELSE LET e == CHOOSE e \in 1..Len(s) :
                    /\ \A m \in 1..e : IsSpace(s[m])
                    /\ (e = Len(s) \/ ~IsSpace(s[e + 1]))
             l == CHOOSE l \in 1..e :
                    s[l] = NL /\ \A m \in (l + 1)..e : s[m] # NL
         IN  <<NL>> \o collapse_blank(SubSeq(s, l + 1, Len(s)))

\* a slip: the markers removed, what stands between them kept
filter_think_markers_only(text) ==
    collapse_blank(strip(SelectSeq(text, LAMBDA t : t \notin OpenTags \cup CloseTags)))

filter_think_sections(text) == collapse_blank(strip(remove_think(text)))

----------------------------------------------------------------------------
(* The inputs: requirement table, rows of the target DPA *)

ROLE == <<"role(processor)">>

KnownMarkers == {"&obligatory{", "&forbidden{", "&permitted{"}
UnknownMarker == "&should{"
Preds == { <<"p">>, <<"-", "p">>, ROLE }
BodyTerms == { ROLE, <<"p">>, <<"not ", "-", "p">> }

RECURSIVE JoinTerms(_)
JoinTerms(terms) ==
    IF Len(terms) = 1 THEN terms[1]
    ELSE terms[1] \o <<",", " ">> \o JoinTerms(Tail(terms))

\* "<marker>pred} :- t1, t2." and, for an empty list of terms, "<marker>pred}."
Rule(marker, pred, terms) ==
    <<marker>> \o pred \o <<"}">> \o
    (IF terms = <<>> THEN <<".">> ELSE <<" ", ":-", " ">> \o JoinTerms(terms) \o <<".">>)

Bodies == {<<>>} \cup SeqsUpTo(BodyTerms, MaxBody)
Heads == (KnownMarkers \X Preds) \cup {<<UnknownMarker, <<"p">>>>}
\* rules outside the regular shapes: an atom with a comma inside parentheses,
\* a second `:-`, a modality marker inside the body
ParenTerm == <<"f(", "a", ",", "b", ")">>
MarkerTerm == <<"&obligatory{", "q", "}">>
ParenRule == Rule("&obligatory{", <<"p">>, <<ParenTerm, <<"p">>>>)
TwoArrowRule ==
    <<"&obligatory{", "p", "}", " ", ":-", " ", "p", " ", ":-", " ", "q", ".">>
MarkerBodyRule == Rule("&forbidden{", <<"p">>, <<MarkerTerm>>)
ExtraRules == { ParenRule, TwoArrowRule, MarkerBodyRule }
Rules == { Rule(h[1], h[2], b) : h \in Heads, b \in Bodies } \cup ExtraRules
BasicRules == { Rule("&obligatory{", <<"p">>, <<ROLE>>) }

ReqIds == {"1", "2"}
\* the text of requirement 2 spans two lines
Requirement(id, rule) ==
    [id |-> id,
     text |-> IF id = "2" THEN <<"requirement " \o id, NL, "continued">>
              ELSE <<"requirement " \o id>>,
     symbolic |-> rule,
     atoms |-> <<>>]
RequirementTable(rule) ==
    << Requirement("1", rule),
       Requirement("2", Rule("&forbidden{", <<"q">>, <<ROLE>>)) >>

has_key(table, id) == \E k \in 1..Len(table) : table[k].id = id

\* the rows of the target DPA: none, MaxSegments rows with distinct ids,
\* MaxSegments rows of which the last repeats the id of the first, and one row
\* whose text quotes a line of a logic program
Row(id, k) ==
    [ID |-> id,
     Sentence |-> IF k = 1 THEN <<"clause text">>
                  ELSE <<"clause text", NL, "second line">>]
QuotingRow == [ID |-> 1, Sentence |-> <<"clause text", NL, "#show status/1.">>]
SegmentTables ==
    { <<>>,
      [k \in 1..MaxSegments |-> Row(k, k)],
      [k \in 1..MaxSegments |-> Row(IF k = MaxSegments THEN 1 ELSE k, k)],
      <<QuotingRow>> }

----------------------------------------------------------------------------
(* extract_body_atoms: identical text in the three scripts *)

body_atom(piece) ==
    LET atom == strip(piece) IN
    IF atom # <<>> /\ Head(atom) = "not " THEN strip(Tail(atom)) ELSE atom

extract_body_atoms(symbolic_rule) ==
    IF ~contains(symbolic_rule, ":-") THEN <<>>
    ELSE LET parts == split(symbolic_rule, ":-")
             body0 == strip(parts[2])
             body == IF body0 # <<>> /\ body0[Len(body0)] = "."
                     THEN SubSeq(body0, 1, Len(body0) - 1) ELSE body0
             pieces == split(body, ",")
             atoms == [k \in 1..Len(pieces) |-> body_atom(pieces[k])]
         IN  SelectSeq(atoms, LAMBDA a : a # <<>>)

----------------------------------------------------------------------------
(* Pieces of the artifact text shared, character for character, by the     *)
(* generators                                                              *)

\* a slip: the sign of the governed predicate dropped
predicate_of_unsigned(req_symbolic, marker) ==
    LET predicate == split(split(req_symbolic, marker)[2], "}")[1] IN
    IF predicate # <<>> /\ Head(predicate) = "-" THEN Tail(predicate) ELSE predicate

\* req_symbolic.split(marker)[1].split("}")[0]
predicate_of(req_symbolic, marker) == split(split(req_symbolic, marker)[2], "}")[1]

header(req_text, segment_text) ==
    <<"% Requirement Text:", NL, "% ">> \o req_text \o <<NL, "%", NL>> \o
    <<"% DPA Segment:", NL, "% ">> \o segment_text \o <<NL, "%", NL>>

\* a slip: the comment of the section written whether or not there are atoms
external_declarations_always(body_atoms) ==
    <<"% External declarations for rule body predicates", NL>> \o
    concat([k \in 1..Len(body_atoms) |->
               <<"#external ">> \o body_atoms[k] \o <<".", NL>>]) \o
    <<NL>>

external_declarations(body_atoms) ==
    IF body_atoms = <<>> THEN <<>>
    ELSE <<"% External declarations for rule body predicates", NL>> \o
         concat([k \in 1..Len(body_atoms) |->
                    <<"#external ">> \o body_atoms[k] \o <<".", NL>>]) \o
         <<NL>>

normative_layer(req_symbolic) ==
    <<"% 1. Normative layer", NL>> \o req_symbolic \o <<NL, NL>>

mapping_clauses(family, predicate) ==
    <<"status(satisfied)     :- ", "&fulfilled_" \o family \o "{">> \o predicate \o <<"}", ".", NL>> \o
    <<"status(violated)      :- ", "&violated_" \o family \o "{">> \o predicate \o <<"}", ".", NL>> \o
    <<"status(not_mentioned) :- ", "&undetermined_" \o family \o "{">> \o predicate \o <<"}", ".", NL>>

\* a slip: a rule without a known marker mapped as an obligation
status_mapping_as_obligation(req_symbolic) ==
    <<"% 3. Map Deolingo's internal status atoms to our labels", NL>> \o
    (IF contains(req_symbolic, "&forbidden{")
       THEN mapping_clauses("prohibition", predicate_of(req_symbolic, "&forbidden{"))
     ELSE IF contains(req_symbolic, "&permitted{")
       THEN mapping_clauses("permission", predicate_of(req_symbolic, "&permitted{"))
     ELSE mapping_clauses("obligation", split(Tail(req_symbolic), "}")[1])) \o
    <<NL, "#show status/1.", NL>>

status_mapping(req_symbolic) ==
    <<"% 3. Map Deolingo's internal status atoms to our labels", NL>> \o
    (IF contains(req_symbolic, "&obligatory{")
       THEN mapping_clauses("obligation", predicate_of(req_symbolic, "&obligatory{"))
     ELSE IF contains(req_symbolic, "&forbidden{")
       THEN mapping_clauses("prohibition", predicate_of(req_symbolic, "&forbidden{"))
     ELSE IF contains(req_symbolic, "&permitted{")
       THEN mapping_clauses("permission", predicate_of(req_symbolic, "&permitted{"))
     ELSE <<"% Warning: Unknown deontic operator in symbolic rule", NL,
            "status(not_mentioned) :- true.", NL>>) \o
    <<NL, "#show status/1.", NL>>

----------------------------------------------------------------------------
(* generate_direct_lp_files.py: generate_symbolic_lp_file *)

\* the governed-predicate lines of a satisfied requirement
satisfied_predicate_facts(req_symbolic) ==
    IF contains(req_symbolic, "&obligatory{") THEN
        LET predicate == predicate_of(req_symbolic, "&obligatory{") IN
        IF predicate # <<>> /\ Head(predicate) = "-"
        THEN <<"% Negative predicate ">> \o predicate \o <<" - satisfied by absence", NL>>
        ELSE predicate \o <<".", NL>>
    ELSE IF contains(req_symbolic, "&forbidden{") THEN
        LET predicate == predicate_of(req_symbolic, "&forbidden{") IN
        IF predicate # <<>> /\ Head(predicate) = "-"
        THEN Tail(predicate) \o <<".", NL>>
        ELSE <<"% Forbidden predicate ">> \o predicate \o <<" - satisfied by absence", NL>>
    ELSE IF contains(req_symbolic, "&permitted{") THEN
        LET predicate == predicate_of(req_symbolic, "&permitted{") IN
        IF predicate # <<>> /\ Head(predicate) = "-"
        THEN <<"% Negative permitted predicate ">> \o predicate \o <<" - satisfied by absence", NL>>
        ELSE predicate \o <<".", NL>>
    ELSE <<>>

\* the loop over body_atoms that follows "role(processor)."
body_atom_facts(body_atoms) ==
    concat([k \in 1..Len(body_atoms) |->
               IF body_atoms[k] # ROLE THEN body_atoms[k] \o <<".", NL>> ELSE <<>>])

\* a slip: the satisfied branch taken whatever the classification says
satisfaction_facts_unconditional(req_symbolic, body_atoms, is_satisfied) ==
    <<"% 2. Facts based on satisfaction classification", NL>> \o
    satisfied_predicate_facts(req_symbolic) \o
    ROLE \o <<".", NL>> \o
    body_atom_facts(body_atoms) \o
    <<NL>>

satisfaction_facts(req_symbolic, body_atoms, is_satisfied) ==
    <<"% 2. Facts based on satisfaction classification", NL>> \o
    (IF is_satisfied
     THEN satisfied_predicate_facts(req_symbolic) \o
          ROLE \o <<".", NL>> \o
          body_atom_facts(body_atoms)
     ELSE ROLE \o <<".", NL>> \o
          <<"% Segment does not satisfy this requirement", NL>>) \o
    <<NL>>

generate_symbolic_lp_file(segment_text, req_text, req_symbolic, req_predicates, is_satisfied) ==
    LET body_atoms == extract_body_atoms(req_symbolic) IN
    header(req_text, segment_text) \o
    external_declarations(body_atoms) \o
    normative_layer(req_symbolic) \o
    satisfaction_facts(req_symbolic, body_atoms, is_satisfied) \o
    status_mapping(req_symbolic)

----------------------------------------------------------------------------
(* generate_lp_files.py and generate_rcv_lp_files.py: generate_lp_file.    *)
(* A fact map (dict) is a sequence of <<predicate, value>> pairs in        *)
(* insertion order, no predicate twice.                                    *)

fact_line(f) == IF f[2] THEN f[1] \o <<".", NL>> ELSE <<"-">> \o f[1] \o <<".", NL>>

extracted_facts(facts) ==
    <<"% 2. Facts extracted from DPA segment", NL>> \o
    (IF facts # <<>>
     THEN concat([k \in 1..Len(facts) |-> fact_line(facts[k])])
     ELSE <<"% No semantically relevant facts found in this segment", NL>>) \o
    <<NL>>

\* a slip: the facts assembled ahead of the normative layer
generate_lp_file_facts_first(req_symbolic, facts, req_predicates, req_text, segment_text) ==
    LET body_atoms == extract_body_atoms(req_symbolic) IN
    header(req_text, segment_text) \o
    external_declarations(body_atoms) \o
    extracted_facts(facts) \o
    normative_layer(req_symbolic) \o
    status_mapping(req_symbolic)

generate_lp_file(req_symbolic, facts, req_predicates, req_text, segment_text) ==
    LET body_atoms == extract_body_atoms(req_symbolic) IN
    header(req_text, segment_text) \o
    external_declarations(body_atoms) \o
    normative_layer(req_symbolic) \o
    extracted_facts(facts) \o
    status_mapping(req_symbolic)

\* a slip: the two texts taken in the order of the other script
generate_lp_file_rcv_swapped(segment_text, req_text, req_symbolic, facts, req_predicates) ==
    LET body_atoms == extract_body_atoms(req_symbolic) IN
    header(segment_text, req_text) \o
    external_declarations(body_atoms) \o
    normative_layer(req_symbolic) \o
    extracted_facts(facts) \o
    status_mapping(req_symbolic)

generate_lp_file_rcv(segment_text, req_text, req_symbolic, facts, req_predicates) ==
    LET body_atoms == extract_body_atoms(req_symbolic) IN
    header(req_text, segment_text) \o
    external_declarations(body_atoms) \o
    normative_layer(req_symbolic) \o
    extracted_facts(facts) \o
    status_mapping(req_symbolic)

\* generate_rcv_lp_files.py: the artifact of a requirement the clause was not
\* classified as
not_classified_lp_content(segment_text, req_text, classified) ==
    header(req_text, segment_text) \o
    <<NL,
      "% RCV Classification: This segment was not classified as relevant to this requirement", NL,
      "% Classified as: ",
      IF classified # "NONE" THEN classified ELSE "Administrative/Non-relevant", NL,
      "status(not_mentioned) :- true.", NL,
      NL,
      "#show status/1.", NL>>

----------------------------------------------------------------------------
(* The classifier collaborator.  A reply of llm_client.generate is either   *)
(* a text (ok) or an exception raised by the call (~ok).                    *)

Reply(text) == [ok |-> TRUE, text |-> text]
Failure == [ok |-> FALSE, text |-> <<>>]
Replies(texts) == { Reply(t) : t \in texts } \cup {Failure}

FactTokens == { ROLE, <<"-", "role(processor)">>, <<"p">>, <<"-", "p">> }
FactResponses ==
    { join(l, ";") : l \in SeqsUpTo(FactTokens, MaxFacts) } \cup
    { <<"NO_FACTS">>, <<" ", "NO_FACTS", NL>>,
      <<"<think>", "p", ";", "role(processor)", "</think>", NL, "NO_FACTS">>,
      <<"NO_FACTS", ";", "p">>,
      <<"role(processor)", ";", "NO_FACTS", ";", "p">>,
      <<"role(processor)", ";", "NO_FACTS", ".">>,
      <<" ", "role(processor)", " ", ";", " ", "p", NL>>,
      <<"role(processor)", ";", "-">>,
      <<"role(processor)", ";", ";", "p", ";">>,
      <<"role(processor)", ";", "-", "-", "p">> }
BasicFactResponses ==
    { <<"role(processor)", ";", "p">>, <<"-", "p", ";", "role(processor)">>,
      <<"NO_FACTS">> }

SatisfactionResponses ==
    { <<"OTHER">>, <<"1">>, <<"2">>, <<"1", " ", "2">>, <<"7">>, <<"R", "1">>,
      <<"x", "1">>, <<"1", ",", "2">>, <<"1", " ", "OTHER">>,
      <<BSB, "1", BSB, " ", "2">>, <<BSB, "R", "2", BSB>>, <<BSB, "1", "2", BSB>>,
      <<"<think>", "1", "</think>", "OTHER">>, <<NL, "OTHER", " ">> }
BasicSatisfactionResponses == { <<"1">>, <<"OTHER">>, <<"1", " ", "2">> }

ClassificationResponses ==
    { <<"NONE">>, <<"1">>, <<"2">>, <<"7">>, <<"1", " ", "2">>, <<"R", "1">>,
      <<"<think>", "2", "</think>", NL, "1">>, <<" ", "NONE", NL>>,
      <<"<THINK>", "1", "</think>", "NONE">> }
BasicClassificationResponses == { <<"1">>, <<"2">>, <<"NONE">> }

\* `text in requirements` for a text made of characters: the ids of the
\* table are one character long
in_requirements(text, reqs) == Len(text) = 1 /\ has_key(reqs, text[1])

----------------------------------------------------------------------------
(* Fact extraction *)

dict_set(d, k, v) ==
    IF \E i \in 1..Len(d) : d[i][1] = k
    THEN [i \in 1..Len(d) |-> IF d[i][1] = k THEN <<k, v>> ELSE d[i]]
    ELSE Append(d, <<k, v>>)

dict_has(d, k) == \E i \in 1..Len(d) : d[i][1] = k

\* the loop `for pred in response.split(';')`
RECURSIVE parse_facts(_, _)
parse_facts(pieces, facts) ==
    IF pieces = <<>> THEN facts
    ELSE LET pred == strip(Head(pieces)) IN
         parse_facts(Tail(pieces),
            IF pred # <<>> /\ pred # <<"NO_FACTS">> /\ pred # <<"NO_FACTS", ".">>
            THEN IF Head(pred) = "-"
                 THEN dict_set(facts, Tail(pred), FALSE)
                 ELSE dict_set(facts, pred, TRUE)
            ELSE facts)

\* generate_lp_files.py: the call is not guarded, an exception leaves the function
extract_facts_from_dpa(reply) ==
    IF ~reply.ok THEN [raised |-> TRUE, facts |-> <<>>]
    ELSE LET response == filter_think_sections(reply.text)
             facts == parse_facts(split(strip(response), ";"), <<>>)
         IN  [raised |-> FALSE,
              facts |-> IF strip(response) = <<"NO_FACTS">> THEN <<>>
                        ELSE IF ~dict_has(facts, ROLE) THEN <<>>
                        ELSE facts]

\* generate_rcv_lp_files.py
extract_facts_from_dpa_rcv(reply) ==
    IF ~reply.ok THEN <<>>
    ELSE LET response == strip(filter_think_sections(reply.text)) IN
         IF response = <<"NO_FACTS">> THEN <<>>
         ELSE parse_facts(split(response, ";"), <<>>)

----------------------------------------------------------------------------
(* Classification *)

\* a slip: an answer that is no id of the table falls back to the first
\* requirement instead of "NONE"
classify_segment_first(reply, reqs) ==
    IF ~reply.ok THEN "NONE"
    ELSE LET classified == strip(filter_think_sections(reply.text)) IN
         IF in_requirements(classified, reqs) THEN classified[1]
         ELSE reqs[1].id

\* a slip: the answer returned without looking it up in the table
classify_segment_unchecked(reply, reqs) ==
    IF ~reply.ok THEN "NONE"
    ELSE LET classified == strip(filter_think_sections(reply.text)) IN
         IF classified = <<>> \/ classified = <<"NONE">> THEN "NONE"
         ELSE classified[1]

\* generate_rcv_lp_files.py
classify_segment(reply, reqs) ==
    IF ~reply.ok THEN "NONE"
    ELSE LET classified == strip(filter_think_sections(reply.text)) IN
         IF classified = <<"NONE">> THEN "NONE"
         ELSE IF in_requirements(classified, reqs) THEN classified[1]
         ELSE "NONE"

Digits == {"0", "1", "2", "3", "4", "5", "6", "7", "8", "9"}

\* re.findall(r'\\b(?:R?([1-9]|1[0-9]|2[0-9]))\\b', response): in a raw string
\* `\\b` is an escaped backslash followed by b, not a word boundary
RECURSIVE findall_ids(_)
findall_ids(s) ==
    IF s = <<>> THEN <<>>
    ELSE LET k == IF Len(s) >= 2 /\ s[2] = "R" THEN 3 ELSE 2
             one == /\ Len(s) >= k + 1
                    /\ s[k] \in Digits \ {"0"}
                    /\ s[k + 1] = BSB
             two == /\ Len(s) >= k + 2
                    /\ s[k] \in {"1", "2"}
                    /\ s[k + 1] \in Digits
                    /\ s[k + 2] = BSB
         IN  IF s[1] = BSB /\ one
               THEN <<SubSeq(s, k, k)>> \o findall_ids(SubSeq(s, k + 2, Len(s)))
             ELSE IF s[1] = BSB /\ two
               THEN <<SubSeq(s, k, k + 1)>> \o findall_ids(SubSeq(s, k + 3, Len(s)))
             ELSE findall_ids(Tail(s))

\* re.sub(r'[^0-9]', '', part)
clean_digits(part) == SelectSeq(part, LAMBDA t : t \in Digits)

\* generate_direct_lp_files.py
classify_segment_satisfaction(reply, reqs) ==
    IF ~reply.ok THEN {}
    ELSE LET response == strip(filter_think_sections(reply.text))
             matches == findall_ids(response)
             by_regex == { matches[k][1] : k \in { k \in 1..Len(matches) :
                                                    in_requirements(matches[k], reqs) } }
             parts == split_ws(response)
             by_split == { clean_digits(parts[k])[1] :
                             k \in { k \in 1..Len(parts) :
                                       in_requirements(clean_digits(parts[k]), reqs) } }
         IN  IF response = <<"OTHER">> THEN {}
             ELSE IF by_regex # {} THEN by_regex
             ELSE by_split

----------------------------------------------------------------------------
(* The run: main and process_dpa_segments of the three scripts *)

Variants == {"lp", "direct", "rcv"}
SegmentIds == 1..MaxSegments
Locations == ReqIds \X SegmentIds     \* req_<id>/segment_<ID>.lp

NoClassification == [kind |-> "none", seg |-> 0, reply |-> Failure]
NoExtraction == [kind |-> "none", seg |-> 0, req |-> "", reply |-> Failure]
NoArtifact ==
    [shape |-> "none", req |-> "", seg |-> 0, row |-> 0, symbolic |-> <<>>,
     is_satisfied |-> FALSE, facts |-> <<>>, lp_content |-> <<>>]

InitWith(rules) ==
    /\ variant \in Variants
    /\ requirements \in { RequirementTable(r) : r \in rules }
    /\ segments \in SegmentTables
    /\ serverUp \in BOOLEAN
    /\ pc = IF variant = "lp" THEN "load" ELSE "health"
    /\ seg_idx = 1
    /\ req_idx = 1
    /\ satisfied_req_ids = {}
    /\ classified_id = "NONE"
    /\ cls = NoClassification
    /\ ext = NoExtraction
    /\ out = NoArtifact
    /\ written = [l \in Locations |-> 0]
    /\ log = <<>>

\* a slip: the answer of the health check not looked at
check_health_ignored ==
    /\ pc = "health"
    /\ log' = Append(log, <<"check_health">>)
    /\ pc' = IF variant = "lp" THEN "pair" ELSE "load"
    /\ UNCHANGED <<variant, requirements, segments, serverUp, seg_idx, req_idx,
                   satisfied_req_ids, classified_id, cls, ext, out, written>>

\* main of the three scripts: `if not llm_client.check_health(): return`
check_health ==
    /\ pc = "health"
    /\ log' = Append(log, <<"check_health">>)
    /\ pc' = IF ~serverUp THEN "exit_health"
             ELSE IF variant = "lp" THEN "pair" ELSE "load"
    /\ UNCHANGED <<variant, requirements, segments, serverUp, seg_idx, req_idx,
                   satisfied_req_ids, classified_id, cls, ext, out, written>>

\* direct and rcv: load_dpa_segments raises ValueError on an empty selection
load_dpa_segments ==
    /\ pc = "load"
    /\ variant \in {"direct", "rcv"}
    /\ pc' = IF segments = <<>> THEN "raised" ELSE "classify"
    /\ UNCHANGED <<variant, requirements, segments, serverUp, seg_idx, req_idx,
                   satisfied_req_ids, classified_id, cls, ext, out, written, log>>

\* lp: main prints an error and returns on an empty selection
main_load_segments ==
    /\ pc = "load"
    /\ variant = "lp"
    /\ pc' = IF segments = <<>> THEN "exit_empty" ELSE "health"
    /\ UNCHANGED <<variant, requirements, segments, serverUp, seg_idx, req_idx,
                   satisfied_req_ids, classified_id, cls, ext, out, written, log>>

\* a slip: the loop over the requirements left after its first iteration
next_requirement_then_segment_first_only ==
    /\ req_idx' = 1
    /\ seg_idx' = IF seg_idx < Len(segments) THEN seg_idx + 1 ELSE seg_idx
    /\ pc' = IF seg_idx < Len(segments) THEN "classify" ELSE "done"

\* direct and rcv: the inner loop over the requirements ends, then the outer
\* loop over the rows
next_requirement_then_segment ==
    IF req_idx < Len(requirements)
    THEN /\ req_idx' = req_idx + 1
         /\ UNCHANGED seg_idx
         /\ pc' = "write"
    ELSE /\ req_idx' = 1
         /\ seg_idx' = IF seg_idx < Len(segments) THEN seg_idx + 1 ELSE seg_idx
         /\ pc' = IF seg_idx < Len(segments) THEN "classify" ELSE "done"

write_file(req_id, segment_id) ==
    /\ written' = [written EXCEPT ![<<req_id, segment_id>>] = @ + 1]

(* generate_direct_lp_files.py: process_dpa_segments *)

classify_step_direct(texts) ==
    /\ pc = "classify"
    /\ variant = "direct"
    /\ \E reply \in Replies(texts) :
          /\ satisfied_req_ids' = classify_segment_satisfaction(reply, requirements)
          /\ cls' = [kind |-> "satisfaction", seg |-> seg_idx, reply |-> reply]
    /\ log' = Append(log, <<"generate", "satisfaction", seg_idx, "">>)
    /\ pc' = "write"
    /\ req_idx' = 1
    /\ ext' = NoExtraction
    /\ out' = NoArtifact
    /\ UNCHANGED <<variant, requirements, segments, serverUp, seg_idx,
                   classified_id, written>>

write_step_direct ==
    /\ pc = "write"
    /\ variant = "direct"
    /\ LET row == segments[seg_idx]
           requirement_info == requirements[req_idx]
           is_satisfied == requirement_info.id \in satisfied_req_ids
           lp_content == generate_symbolic_lp_file(row.Sentence, requirement_info.text,
                            requirement_info.symbolic, requirement_info.atoms, is_satisfied)
       IN  /\ out' = [shape |-> "symbolic", req |-> requirement_info.id, seg |-> row.ID,
                      row |-> seg_idx, symbolic |-> requirement_info.symbolic,
                      is_satisfied |-> is_satisfied, facts |-> <<>>,
                      lp_content |-> lp_content]
           /\ write_file(requirement_info.id, row.ID)
           /\ log' = Append(log, <<"write", requirement_info.id, row.ID>>)
    /\ next_requirement_then_segment
    /\ UNCHANGED <<variant, requirements, segments, serverUp,
                   satisfied_req_ids, classified_id, cls, ext>>

(* generate_rcv_lp_files.py: process_dpa_segments *)

classify_step_rcv(texts) ==
    /\ pc = "classify"
    /\ variant = "rcv"
    /\ \E reply \in Replies(texts) :
          /\ classified_id' = classify_segment(reply, requirements)
          /\ cls' = [kind |-> "classification", seg |-> seg_idx, reply |-> reply]
    /\ log' = Append(log, <<"generate", "classification", seg_idx, "">>)
    /\ pc' = "write"
    /\ req_idx' = 1
    /\ ext' = NoExtraction
    /\ out' = NoArtifact
    /\ UNCHANGED <<variant, requirements, segments, serverUp, seg_idx,
                   satisfied_req_ids, written>>

\* a slip: facts extracted for every requirement, classified or not
verify_step_rcv_any(texts) ==
    /\ pc = "write"
    /\ variant = "rcv"
    /\ LET row == segments[seg_idx]
           requirement_info == requirements[req_idx]
       IN  /\ \E reply \in Replies(texts) :
                 LET facts == extract_facts_from_dpa_rcv(reply)
                     lp_content == generate_lp_file_rcv(row.Sentence, requirement_info.text,
                                      requirement_info.symbolic, facts, requirement_info.atoms)
                 IN  /\ ext' = [kind |-> "facts", seg |-> seg_idx,
                                req |-> requirement_info.id, reply |-> reply]
                     /\ out' = [shape |-> "lp", req |-> requirement_info.id, seg |-> row.ID,
                                row |-> seg_idx, symbolic |-> requirement_info.symbolic,
                                is_satisfied |-> FALSE, facts |-> facts,
                                lp_content |-> lp_content]
           /\ write_file(requirement_info.id, row.ID)
           /\ log' = log \o << <<"generate", "facts", seg_idx, requirement_info.id>>,
                               <<"write", requirement_info.id, row.ID>> >>
    /\ next_requirement_then_segment
    /\ UNCHANGED <<variant, requirements, segments, serverUp,
                   satisfied_req_ids, classified_id, cls>>

\* the branch `req_id == classified_id`
verify_step_rcv(texts) ==
    /\ pc = "write"
    /\ variant = "rcv"
    /\ requirements[req_idx].id = classified_id
    /\ LET row == segments[seg_idx]
           requirement_info == requirements[req_idx]
       IN  /\ \E reply \in Replies(texts) :
                 LET facts == extract_facts_from_dpa_rcv(reply)
                     lp_content == generate_lp_file_rcv(row.Sentence, requirement_info.text,
                                      requirement_info.symbolic, facts, requirement_info.atoms)
                 IN  /\ ext' = [kind |-> "facts", seg |-> seg_idx,
                                req |-> requirement_info.id, reply |-> reply]
                     /\ out' = [shape |-> "lp", req |-> requirement_info.id, seg |-> row.ID,
                                row |-> seg_idx, symbolic |-> requirement_info.symbolic,
                                is_satisfied |-> FALSE, facts |-> facts,
                                lp_content |-> lp_content]
           /\ write_file(requirement_info.id, row.ID)
           /\ log' = log \o << <<"generate", "facts", seg_idx, requirement_info.id>>,
                               <<"write", requirement_info.id, row.ID>> >>
    /\ next_requirement_then_segment
    /\ UNCHANGED <<variant, requirements, segments, serverUp,
                   satisfied_req_ids, classified_id, cls>>

\* the branch of every other requirement
not_classified_step_rcv ==
    /\ pc = "write"
    /\ variant = "rcv"
    /\ requirements[req_idx].id # classified_id
    /\ LET row == segments[seg_idx]
           requirement_info == requirements[req_idx]
           lp_content == not_classified_lp_content(row.Sentence, requirement_info.text,
                                                   classified_id)
       IN  /\ out' = [shape |-> "not_classified", req |-> requirement_info.id,
                      seg |-> row.ID, row |-> seg_idx,
                      symbolic |-> requirement_info.symbolic,
                      is_satisfied |-> FALSE, facts |-> <<>>, lp_content |-> lp_content]
           /\ write_file(requirement_info.id, row.ID)
           /\ log' = Append(log, <<"write", requirement_info.id, row.ID>>)
    /\ next_requirement_then_segment
    /\ UNCHANGED <<variant, requirements, segments, serverUp,
                   satisfied_req_ids, classified_id, cls, ext>>

(* generate_lp_files.py: the two loops of main, requirements outside *)

pair_step_lp(texts) ==
    /\ pc = "pair"
    /\ variant = "lp"
    /\ LET row == segments[seg_idx]
           req_info == requirements[req_idx]
       IN  \E reply \in Replies(texts) :
              LET got == extract_facts_from_dpa(reply)
                  lp_content == generate_lp_file(req_info.symbolic, got.facts, req_info.atoms,
                                                 req_info.text, row.Sentence)
              IN  /\ ext' = [kind |-> "facts", seg |-> seg_idx, req |-> req_info.id,
                             reply |-> reply]
                  /\ IF got.raised
                     THEN /\ pc' = "raised"
                          /\ log' = Append(log, <<"generate", "facts", seg_idx, req_info.id>>)
                          /\ UNCHANGED <<out, written, seg_idx, req_idx>>
                     ELSE /\ out' = [shape |-> "lp", req |-> req_info.id, seg |-> row.ID,
                                     row |-> seg_idx, symbolic |-> req_info.symbolic,
                                     is_satisfied |-> FALSE, facts |-> got.facts,
                                     lp_content |-> lp_content]
                          /\ write_file(req_info.id, row.ID)
                          /\ log' = log \o << <<"generate", "facts", seg_idx, req_info.id>>,
                                              <<"write", req_info.id, row.ID>> >>
                          /\ IF seg_idx < Len(segments)
                             THEN /\ seg_idx' = seg_idx + 1
                                  /\ UNCHANGED req_idx
                                  /\ pc' = "pair"
                             ELSE /\ seg_idx' = 1
                                  /\ req_idx' = IF req_idx < Len(requirements)
                                                THEN req_idx + 1 ELSE req_idx
                                  /\ pc' = IF req_idx < Len(requirements)
                                           THEN "pair" ELSE "done"
    /\ UNCHANGED <<variant, requirements, segments, serverUp,
                   satisfied_req_ids, classified_id, cls>>

NextWith(sat_texts, cls_texts, fact_texts) ==
    \/ check_health
    \/ load_dpa_segments
    \/ main_load_segments
    \/ classify_step_direct(sat_texts)
    \/ write_step_direct
    \/ classify_step_rcv(cls_texts)
    \/ verify_step_rcv(fact_texts)
    \/ not_classified_step_rcv
    \/ pair_step_lp(fact_texts)

\* every rule shape, the classifier answering in its documented format
Init == InitWith(Rules)
Next == NextWith(BasicSatisfactionResponses, BasicClassificationResponses,
                 BasicFactResponses)
Spec == Init /\ [][Next]_vars

\* two representative rules, the classifier answering anything of its repertoire
InitResponses == InitWith(BasicRules)
NextResponses == NextWith(SatisfactionResponses, ClassificationResponses, FactResponses)
SpecResponses == InitResponses /\ [][NextResponses]_vars

\* the position of the run in its loops
control == <<pc, seg_idx, req_idx>>
Terminated == pc \in {"done", "raised", "exit_health", "exit_empty"}

\* the scripts are sequential programs: a run that has not ended executes its
\* next statement.  Every step of Next moves the position of the run and a
\* step of Next is possible exactly when the run has not ended, so the
\* fairness of Next is the fairness of the advance of the position.
Advance ==
    /\ ~Terminated
    /\ pc' \in {"health", "load", "classify", "write", "pair",
                "done", "raised", "exit_health", "exit_empty"}
    /\ seg_idx' \in 1..(Len(segments) + 1)
    /\ req_idx' \in 1..Len(requirements)
    /\ control' # control
SpecLive == InitResponses /\ [][Next]_vars /\ WF_control(Advance)

----------------------------------------------------------------------------
(* Reading an artifact back *)

\* the lines of a text: what str.split("\n") returns, read in one pass
RECURSIVE NextBreak(_, _)
NextBreak(text, k) ==
    IF k > Len(text) THEN k ELSE IF text[k] = NL THEN k ELSE NextBreak(text, k + 1)

RECURSIVE LinesFrom(_, _)
LinesFrom(text, s) ==
    LET e == NextBreak(text, s)
    IN  IF e > Len(text) THEN <<SubSeq(text, s, Len(text))>>
        ELSE <<SubSeq(text, s, e - 1)>> \o LinesFrom(text, e + 1)

Lines(lp_content) == LinesFrom(lp_content, 1)

FactsTitles == { <<"% 2. Facts based on satisfaction classification">>,
                 <<"% 2. Facts extracted from DPA segment">> }
MappingTitle == <<"% 3. Map Deolingo's internal status atoms to our labels">>
FactComments ==
    { "% Negative predicate ", "% Forbidden predicate ", "% Negative permitted predicate ",
      "% Segment does not satisfy this requirement",
      "% No semantically relevant facts found in this segment" }

\* the lines between the title of the facts section and the title of the mapping
FactsSection(lp_content) ==
    LET lines == Lines(lp_content)
        starts == { k \in 1..Len(lines) : lines[k] \in FactsTitles }
    IN  IF starts = {} THEN <<>>
        ELSE LET s == CHOOSE k \in starts : \A m \in starts : k <= m
                 ends == { k \in (s + 1)..Len(lines) : lines[k] = MappingTitle }
                 e == IF ends = {} THEN Len(lines) + 1
                      ELSE CHOOSE k \in ends : \A m \in ends : k <= m
             IN  SubSeq(lines, s + 1, e - 1)

\* the program lines of the facts section, in order
FactLines(lp_content) ==
    SelectSeq(FactsSection(lp_content),
              LAMBDA line : line # <<>> /\ Head(line) \notin FactComments)

Asserts(lp_content, line) == line \in Range(FactLines(lp_content))
Occurrences(lines, line) == Cardinality({ k \in 1..Len(lines) : lines[k] = line })

RoleFact == <<"role(processor)", ".">>

\* a satisfied requirement of the satisfaction-set variant has just been written
SatisfiedArtifact == out.shape = "symbolic" /\ out.is_satisfied

----------------------------------------------------------------------------
(* Satisfaction-set variant: the truth table of the governed predicate *)

\* C1: for a satisfied requirement whose head is an obligation, a positive
\* governed predicate p gives the facts `p.` and `role(processor).`; a negated
\* -p gives no fact line `p.` but still `role(processor).`; for every body.
C1_ObligationTruthTable ==
    SatisfiedArtifact =>
        \A body \in Bodies :
            /\ out.symbolic = Rule("&obligatory{", <<"p">>, body) =>
                  /\ Asserts(out.lp_content, <<"p", ".">>)
                  /\ Asserts(out.lp_content, RoleFact)
            /\ out.symbolic = Rule("&obligatory{", <<"-", "p">>, body) =>
                  /\ ~Asserts(out.lp_content, <<"p", ".">>)
                  /\ Asserts(out.lp_content, RoleFact)

\* C2: for a satisfied requirement whose head is a prohibition, a positive
\* governed predicate p gives no fact line `p.`; a negated -p gives the fact
\* `p.`; for every body.
C2_ProhibitionTruthTable ==
    SatisfiedArtifact =>
        \A body \in Bodies :
            /\ out.symbolic = Rule("&forbidden{", <<"p">>, body) =>
                  ~Asserts(out.lp_content, <<"p", ".">>)
            /\ out.symbolic = Rule("&forbidden{", <<"-", "p">>, body) =>
                  Asserts(out.lp_content, <<"p", ".">>)

\* C3: for a satisfied requirement whose head is a permission, a positive
\* governed predicate p gives the fact `p.`; for a negated -p neither `p.`
\* nor `-p.` is asserted.
C3_PermissionTruthTable ==
    SatisfiedArtifact =>
        \A body \in Bodies :
            /\ out.symbolic = Rule("&permitted{", <<"p">>, body) =>
                  Asserts(out.lp_content, <<"p", ".">>)
            /\ out.symbolic = Rule("&permitted{", <<"-", "p">>, body) =>
                  /\ ~Asserts(out.lp_content, <<"p", ".">>)
                  /\ ~Asserts(out.lp_content, <<"-", "p", ".">>)

\* the body atoms of a rule built from the terms `body`, `not ` stripped
TermAtom(term) == IF Head(term) = "not " THEN Tail(term) ELSE term

\* C4: for a satisfied requirement of any modality, the facts section asserts
\* `role(processor).`, asserts every body atom other than role(processor)
\* (its `not ` marker stripped), and holds the line `role(processor).` once.
C4_RoleAndBodyAtoms ==
    SatisfiedArtifact =>
        /\ Asserts(out.lp_content, RoleFact)
        /\ \A h \in Heads, body \in Bodies :
              out.symbolic = Rule(h[1], h[2], body) =>
                  \A k \in 1..Len(body) :
                      TermAtom(body[k]) # ROLE =>
                          Asserts(out.lp_content, TermAtom(body[k]) \o <<".">>)
        /\ Occurrences(Lines(out.lp_content), RoleFact) = 1

\* C5: a requirement whose id is not in the satisfaction set of the row gets
\* exactly one fact, `role(processor).`, whatever its rule.
C5_NotSatisfiedOnlyRole ==
    (out.shape = "symbolic" /\ out.req \notin satisfied_req_ids) =>
        FactLines(out.lp_content) = <<RoleFact>>

\* a requirement that is not satisfied, whose rule would assert its governed
\* predicate and a body atom if it were, has been written
C5_Witness ==
    /\ out.shape = "symbolic"
    /\ out.req \notin satisfied_req_ids
    /\ out.symbolic = Rule("&forbidden{", <<"-", "p">>, <<ROLE, <<"not ", "-", "p">>>>)
    /\ written[<<out.req, out.seg>>] = 1

----------------------------------------------------------------------------
(* Fact extraction: what the response holds, read independently of the parser *)

\* the text of a response outside its reasoning spans
Answer(text) == strip(filter_think_sections(text))

\* the trimmed, non-empty tokens of a `;`-separated response that are not the
\* sentinel (the code also takes `NO_FACTS.` for the sentinel)
ResponseTokens(text) ==
    LET pieces == split(Answer(text), ";")
        trimmed == [k \in 1..Len(pieces) |-> strip(pieces[k])]
    IN  SelectSeq(trimmed,
                  LAMBDA t : t # <<>> /\ t # <<"NO_FACTS">> /\ t # <<"NO_FACTS", ".">>)

TokenName(t) == IF Head(t) = "-" THEN Tail(t) ELSE t
TokenPolarity(t) == Head(t) # "-"

\* role(processor) is among the tokens with positive polarity
PositiveRole(text) ==
    \E k \in 1..Len(ResponseTokens(text)) : ResponseTokens(text)[k] = ROLE

\* role(processor) is among the tokens with either polarity
NamesRole(text) ==
    \E k \in 1..Len(ResponseTokens(text)) : TokenName(ResponseTokens(text)[k]) = ROLE

\* one entry per distinct name, the polarity that of the last token of that name
ExpectedFacts(text) ==
    LET toks == ResponseTokens(text) IN
    { <<TokenName(toks[k]), TokenPolarity(toks[k])>> :
        k \in { k \in 1..Len(toks) :
                  \A m \in (k + 1)..Len(toks) : TokenName(toks[m]) # TokenName(toks[k]) } }

\* an extraction answered by the classifier has produced the artifact held in out
Extracted == ext.kind = "facts" /\ ext.reply.ok /\ out.shape = "lp"

\* C6: per-requirement variant: when role(processor) is not among the
\* extracted facts with positive polarity (absent, or only -role(processor)),
\* the returned fact map is empty.
C6_DiscardWithoutPositiveRole ==
    (variant = "lp" /\ Extracted /\ ~PositiveRole(ext.reply.text)) =>
        out.facts = <<>>

\* C7: classify-then-verify variant: when the extraction response lacks
\* role(processor), the facts section of the artifact holds no fact line.
C7_NoFactsWithoutRole ==
    (variant = "rcv" /\ ext.kind = "facts" /\ out.shape = "lp"
       /\ (~ext.reply.ok \/ ~PositiveRole(ext.reply.text))) =>
        FactLines(out.lp_content) = <<>>

\* C8: in both fact-extraction parsers, a response holding a positive
\* role(processor) yields exactly one entry per distinct token name, with the
\* polarity of the token, and a response that does not name role(processor)
\* yields the empty map.
C8_ParsedFactMap ==
    Extracted =>
        /\ PositiveRole(ext.reply.text) =>
              /\ Range(out.facts) = ExpectedFacts(ext.reply.text)
              /\ Len(out.facts) = Cardinality(ExpectedFacts(ext.reply.text))
        /\ ~NamesRole(ext.reply.text) => out.facts = <<>>

\* C9: no artifact asserts both `x.` and `-x.`.
C9_NoContradictoryFacts ==
    \A line \in Range(FactLines(out.lp_content)) :
        ~Asserts(out.lp_content, <<"-">> \o line)

----------------------------------------------------------------------------
(* Sentinels *)

\* the sentinel alone, possibly surrounded by whitespace
SentinelTexts(sentinel) ==
    { <<sentinel>>, <<" ", sentinel, NL>>, <<NL, sentinel, " ">> }

\* C10: NO_FACTS yields the empty fact map, OTHER the empty satisfaction set,
\* NONE no assigned requirement; no artifact of the row then carries a fact
\* derived from the classifier.
C10_SentinelsYieldEmpty ==
    /\ (ext.kind = "facts" /\ ext.reply.ok
          /\ ext.reply.text \in SentinelTexts("NO_FACTS")
          /\ out.req = ext.req /\ out.row = ext.seg) =>
          /\ out.shape = "lp"
          /\ out.facts = <<>>
          /\ FactLines(out.lp_content) = <<>>
    /\ (cls.kind = "satisfaction" /\ cls.reply.ok
          /\ cls.reply.text \in SentinelTexts("OTHER")) =>
          /\ satisfied_req_ids = {}
          /\ out.shape # "none" => FactLines(out.lp_content) = <<RoleFact>>
    /\ (cls.kind = "classification" /\ cls.reply.ok
          /\ cls.reply.text \in SentinelTexts("NONE")) =>
          /\ classified_id = "NONE"
          /\ ext.kind = "none"
          /\ out.shape # "none" =>
                out.shape = "not_classified" /\ FactLines(out.lp_content) = <<>>

\* a row classified NONE (the sentinel surrounded by whitespace) has had the
\* artifacts of all its requirements written
C10_Witness ==
    /\ cls.kind = "classification"
    /\ cls.reply.ok
    /\ cls.reply.text = <<" ", "NONE", NL>>
    /\ out.shape = "not_classified"
    /\ out.req = requirements[Len(requirements)].id
    /\ \A k \in 1..Len(requirements) : written[<<requirements[k].id, out.seg>>] >= 1

----------------------------------------------------------------------------
(* The lines of an artifact by their form *)

\* a line is a comment when it begins with `%`: the tokens of the model that do
CommentTokens ==
    { "% Requirement Text:", "% DPA Segment:", "% ", "%",
      "% External declarations for rule body predicates", "% 1. Normative layer",
      "% 2. Facts based on satisfaction classification",
      "% 2. Facts extracted from DPA segment",
      "% 3. Map Deolingo's internal status atoms to our labels",
      "% Warning: Unknown deontic operator in symbolic rule",
      "% RCV Classification: This segment was not classified as relevant to this requirement",
      "% Classified as: " } \cup FactComments

IsComment(line) == line # <<>> /\ Head(line) \in CommentTokens

\* the non-empty lines that are not comments, in order
ProgramLines(lp_content) ==
    SelectSeq(Lines(lp_content), LAMBDA line : line # <<>> /\ ~IsComment(line))

ShowLine == <<"#show status/1.">>
FallbackLine == <<"status(not_mentioned) :- true.">>
StatusLabels == <<"status(satisfied)     :- ", "status(violated)      :- ",
                  "status(not_mentioned) :- ">>

IsStatusLine(line) ==
    line # <<>> /\ (line = FallbackLine \/ Head(line) \in Range(StatusLabels))
IsExternalLine(line) == line # <<>> /\ Head(line) = "#external "

StatusLines(lp_content) == SelectSeq(ProgramLines(lp_content), IsStatusLine)

\* an artifact made by one of the three generate functions
HasNormativeLayer == out.shape \in {"symbolic", "lp"}

\* the texts the artifact held in out was made from
OutRequirement == requirements[CHOOSE k \in 1..Len(requirements) : requirements[k].id = out.req]
OutSentence == segments[out.row].Sentence

----------------------------------------------------------------------------
(* Shape of the artifact *)

\* C11: every artifact has, as program lines, exactly one `#show status/1.`
\* and either the three mapping clauses (satisfied, violated, not_mentioned)
\* or the single clause `status(not_mentioned) :- true.`.
C11_OneShowThreeClauses ==
    out.shape # "none" =>
        /\ Occurrences(ProgramLines(out.lp_content), ShowLine) = 1
        /\ \/ StatusLines(out.lp_content) = <<FallbackLine>>
           \/ /\ Len(StatusLines(out.lp_content)) = 3
              /\ \A k \in 1..3 : Head(StatusLines(out.lp_content)[k]) = StatusLabels[k]

\* the program lines that follow the header of the artifact held in out
AssembledProgramLines ==
    LET lines == Lines(out.lp_content)
        nreq == Len(split(OutRequirement.text, NL))
        nseg == Len(split(OutSentence, NL))
    IN  SelectSeq(SubSeq(lines, 5 + nreq + nseg, Len(lines)),
                  LAMBDA line : line # <<>> /\ ~IsComment(line))

\* the place of a program line in the order of assembly: external
\* declarations, the rule, facts, status clauses, the show directive
Rank(line, symbolic) ==
    IF IsExternalLine(line) THEN 1
    ELSE IF line = symbolic THEN 2
    ELSE IF IsStatusLine(line) THEN 4
    ELSE IF line = ShowLine THEN 5
    ELSE 3

\* C12: in an artifact with a normative layer the rule is one line, unchanged,
\* found once; every #external line precedes it; every fact line follows it
\* and precedes every status clause; `#show status/1.` is the last program line.
C12_FixedOrder ==
    HasNormativeLayer =>
        LET program == AssembledProgramLines
            rank == [k \in 1..Len(program) |-> Rank(program[k], out.symbolic)]
            facts == SelectSeq(program, LAMBDA line : Rank(line, out.symbolic) = 3)
        IN  /\ Cardinality({ k \in 1..Len(program) : rank[k] = 2 }) = 1
            /\ \A k \in 1..(Len(program) - 1) : rank[k] <= rank[k + 1]
            /\ rank[Len(program)] = 5
            /\ facts = FactLines(out.lp_content)

\* an artifact with external declarations, two facts and three mapping clauses
C12_Witness ==
    /\ out.shape = "lp"
    /\ Len(out.facts) = 2
    /\ \E k \in 1..Len(Lines(out.lp_content)) : IsExternalLine(Lines(out.lp_content)[k])
    /\ Len(StatusLines(out.lp_content)) = 3
    /\ written[<<out.req, out.seg>>] = 1

\* the lines of the artifact that hold the requirement text and the clause text:
\* the header is "% Requirement Text:", the text, "%", "% DPA Segment:", the
\* text, "%"
TextPositions ==
    LET nreq == Len(split(OutRequirement.text, NL))
        nseg == Len(split(OutSentence, NL))
    IN  (2..(1 + nreq)) \cup ((4 + nreq)..(3 + nreq + nseg))

\* C13: every line of the artifact that comes from the requirement text or the
\* clause text begins with `%`.
C13_HeaderLineCommented ==
    out.shape # "none" =>
        \A k \in TextPositions : IsComment(Lines(out.lp_content)[k])

----------------------------------------------------------------------------
(* Rule bodies and external declarations *)

\* the text after the first occurrence of sep
AfterFirst(s, sep) ==
    LET k == CHOOSE k \in 1..Len(s) : s[k] = sep /\ \A m \in 1..(k - 1) : s[m] # sep
    IN  SubSeq(s, k + 1, Len(s))

\* the pieces of s between the commas that stand outside parentheses; the
\* token "f(" opens a parenthesis and ")" closes it
RECURSIVE SplitTopLevel(_, _, _)
SplitTopLevel(s, depth, piece) ==
    IF s = <<>> THEN <<piece>>
    ELSE IF Head(s) = "," /\ depth = 0
      THEN <<piece>> \o SplitTopLevel(Tail(s), depth, <<>>)
    ELSE SplitTopLevel(Tail(s),
                       IF Head(s) = "f(" THEN depth + 1
                       ELSE IF Head(s) = ")" /\ depth > 0 THEN depth - 1
                       ELSE depth,
                       Append(piece, Head(s)))

\* the non-empty top-level terms of the text after the first `:-`, a single
\* trailing `.` removed, each without surrounding whitespace and without one
\* leading `not `
TopLevelTerms(symbolic_rule) ==
    LET tail == strip(AfterFirst(symbolic_rule, ":-"))
        body == IF tail # <<>> /\ tail[Len(tail)] = "."
                THEN SubSeq(tail, 1, Len(tail) - 1) ELSE tail
        pieces == SplitTopLevel(body, 0, <<>>)
        terms == [k \in 1..Len(pieces) |->
                     LET t == strip(pieces[k]) IN
                     IF t # <<>> /\ Head(t) = "not " THEN strip(Tail(t)) ELSE t]
    IN  SelectSeq(terms, LAMBDA t : t # <<>>)

\* C14: for a rule with a body, extract_body_atoms returns, in order, the
\* non-empty top-level comma-separated terms of the text after the first `:-`.
C14_BodyAtomsRoundTrip ==
    (HasNormativeLayer /\ contains(out.symbolic, ":-")) =>
        extract_body_atoms(out.symbolic) = TopLevelTerms(out.symbolic)

ExternalsTitle == <<"% External declarations for rule body predicates">>

\* the atoms declared by the #external lines of an artifact, in order
ExternalAtoms(lp_content) ==
    LET declared == SelectSeq(Lines(lp_content), IsExternalLine)
    IN  [k \in 1..Len(declared) |-> SubSeq(declared[k], 2, Len(declared[k]) - 1)]

\* C15: for a rule without `:-`, extract_body_atoms returns the empty sequence
\* and the artifact has no #external line and no external-declarations comment.
C15_NoBodyNoExternals ==
    (HasNormativeLayer /\ ~contains(out.symbolic, ":-")) =>
        /\ extract_body_atoms(out.symbolic) = <<>>
        /\ ExternalAtoms(out.lp_content) = <<>>
        /\ ExternalsTitle \notin Range(Lines(out.lp_content))

\* the artifact of a satisfied requirement whose rule is the fact-like
\* `&obligatory{-p}.` has been written
C15_Witness ==
    /\ out.shape = "symbolic"
    /\ out.is_satisfied
    /\ out.symbolic = Rule("&obligatory{", <<"-", "p">>, <<>>)
    /\ written[<<out.req, out.seg>>] = 1

\* C16: an artifact with a normative layer declares each distinct body atom of
\* its rule exactly once and declares nothing else.
C16_OneExternalPerAtom ==
    (HasNormativeLayer /\ contains(out.symbolic, ":-")) =>
        /\ Range(ExternalAtoms(out.lp_content)) = Range(TopLevelTerms(out.symbolic))
        /\ Len(ExternalAtoms(out.lp_content)) =
              Cardinality(Range(TopLevelTerms(out.symbolic)))

----------------------------------------------------------------------------
(* Modality and status mapping *)

Family(marker) ==
    IF marker = "&obligatory{" THEN "obligation"
    ELSE IF marker = "&forbidden{" THEN "prohibition"
    ELSE "permission"

\* the text between the first occurrence of the marker and the `}` that
\* closes it
Governed(symbolic_rule, marker) ==
    LET rest == AfterFirst(symbolic_rule, marker)
        close == CHOOSE k \in 1..Len(rest) : rest[k] = "}" /\ \A m \in 1..(k - 1) : rest[m] # "}"
    IN  SubSeq(rest, 1, close - 1)

\* the three clauses of a family for a predicate, as lines
ExpectedClauses(family, predicate) ==
    << <<StatusLabels[1], "&fulfilled_" \o family \o "{">> \o predicate \o <<"}", ".">>,
       <<StatusLabels[2], "&violated_" \o family \o "{">> \o predicate \o <<"}", ".">>,
       <<StatusLabels[3], "&undetermined_" \o family \o "{">> \o predicate \o <<"}", ".">> >>

\* the rule begins with a known modality marker: the marker that wraps the head
HeadMarked(symbolic_rule) == symbolic_rule # <<>> /\ Head(symbolic_rule) \in KnownMarkers

\* whether a satisfied requirement asserts its governed predicate, and which
\* fact it then asserts: obligation and permission assert a positive
\* predicate, a prohibition asserts the positive form of a negated one
HeadFact(marker, predicate) ==
    IF marker = "&forbidden{"
    THEN IF Head(predicate) = "-" THEN <<Tail(predicate) \o <<".">>>> ELSE <<>>
    ELSE IF Head(predicate) = "-" THEN <<>> ELSE <<predicate \o <<".">>>>

\* the program lines of the facts section ahead of the line `role(processor).`
\* that the generator writes for every satisfied requirement
RECURSIVE BeforeRole(_)
BeforeRole(lines) ==
    IF lines = <<>> \/ Head(lines) = RoleFact THEN <<>>
    ELSE <<Head(lines)>> \o BeforeRole(Tail(lines))

\* C17: the status-mapping family, its predicate and, for a satisfied
\* requirement of the satisfaction-set variant, the assertion of the governed
\* predicate are those of the marker that wraps the head, whatever the body.
C17_ModalityOfHead ==
    (HasNormativeLayer /\ HeadMarked(out.symbolic)) =>
        LET marker == Head(out.symbolic)
            predicate == Governed(out.symbolic, marker)
        IN  /\ StatusLines(out.lp_content) = ExpectedClauses(Family(marker), predicate)
            /\ (SatisfiedArtifact /\ predicate # ROLE) =>
                  BeforeRole(FactLines(out.lp_content)) = HeadFact(marker, predicate)

\* C18: for a rule with a known marker the three clauses bind satisfied,
\* violated and not_mentioned to the fulfilled, violated and undetermined atoms
\* of one family, that of a marker of the rule, with the predicate found
\* between that marker and its closing brace, a leading `-` included.
C18_MappingClauses ==
    (HasNormativeLayer /\ \E m \in KnownMarkers : contains(out.symbolic, m)) =>
        LET clauses == StatusLines(out.lp_content) IN
        \E m \in KnownMarkers :
            /\ contains(out.symbolic, m)
            /\ clauses = ExpectedClauses(Family(m), Governed(out.symbolic, m))
            /\ (HeadMarked(out.symbolic)
                  /\ \A k \in 2..Len(out.symbolic) : out.symbolic[k] \notin KnownMarkers)
                 => m = Head(out.symbolic)

\* an artifact for a permission on a negated predicate has been written
C18_Witness ==
    /\ out.shape = "lp"
    /\ out.symbolic = Rule("&permitted{", <<"-", "p">>, <<ROLE>>)
    /\ written[<<out.req, out.seg>>] = 1

WarningLine == <<"% Warning: Unknown deontic operator in symbolic rule">>

\* the lines that follow the title of the mapping, up to the next empty line
MappingSection(lp_content) ==
    LET lines == Lines(lp_content)
        t == CHOOSE k \in 1..Len(lines) : lines[k] = MappingTitle
        e == CHOOSE k \in (t + 1)..Len(lines) :
                lines[k] = <<>> /\ \A m \in (t + 1)..(k - 1) : lines[m] # <<>>
    IN  SubSeq(lines, t + 1, e - 1)

\* C19: a rule with none of the three markers still gets its artifact; the
\* mapping section is the explanatory comment and `status(not_mentioned) :-
\* true.`, without any fulfilled/violated/undetermined clause; the run does not
\* end by an error on account of the rule.
C19_UnknownModalityFallback ==
    /\ (HasNormativeLayer /\ \A m \in KnownMarkers : ~contains(out.symbolic, m)) =>
          /\ MappingSection(out.lp_content) = <<WarningLine, FallbackLine>>
          /\ StatusLines(out.lp_content) = <<FallbackLine>>
          /\ written[<<out.req, out.seg>>] >= 1
    /\ pc = "raised" => (segments = <<>> \/ (ext.kind = "facts" /\ ~ext.reply.ok))
    /\ pc = "done" =>
          \A k \in 1..Len(requirements), j \in 1..Len(segments) :
              written[<<requirements[k].id, segments[j].ID>>] >= 1

\* the artifact of a satisfied requirement whose rule has an unknown marker
C19_Witness ==
    /\ out.shape = "symbolic"
    /\ out.is_satisfied
    /\ out.symbolic = Rule(UnknownMarker, <<"p">>, <<ROLE>>)
    /\ written[<<out.req, out.seg>>] = 1

----------------------------------------------------------------------------
(* Failure of the classifier *)

\* C20: when a classifier call raises, the signal of that pair or clause is
\* empty, the artifact of the pair is still written, and the run does not end
\* by an error.
C20_ClassifierFailureFailsOpen ==
    /\ (ext.kind = "facts" /\ ~ext.reply.ok) =>
          /\ pc # "raised"
          /\ written[<<ext.req, segments[ext.seg].ID>>] >= 1
          /\ (out.req = ext.req /\ out.row = ext.seg) => out.facts = <<>>
    /\ (cls.kind = "satisfaction" /\ ~cls.reply.ok) => satisfied_req_ids = {}
    /\ (cls.kind = "classification" /\ ~cls.reply.ok) => classified_id = "NONE"
    /\ pc = "raised" => segments = <<>>

----------------------------------------------------------------------------
(* Classify-then-verify: one requirement per clause *)

----------------------------------------------------------------------------
(* Satisfaction set: the ids of a response *)

\* the whitespace-separated tokens of the response that are ids of the table
IdTokens(text, reqs) ==
    LET parts == split_ws(Answer(text)) IN
    { parts[k][1] : k \in { k \in 1..Len(parts) : in_requirements(parts[k], reqs) } }

\* C22: the satisfaction set is exactly the set of the whitespace-separated
\* tokens of the response that are ids of the table.
C22_ExactlyTheValidIds ==
    (cls.kind = "satisfaction" /\ cls.reply.ok) =>
        /\ satisfied_req_ids = IdTokens(cls.reply.text, requirements)
        /\ \A id \in satisfied_req_ids : has_key(requirements, id)

----------------------------------------------------------------------------
(* The run *)

Generates == { k \in 1..Len(log) : log[k][1] = "generate" }
Writes == { k \in 1..Len(log) : log[k][1] = "write" }

\* C23: a target document without clauses ends the run by an error, without
\* classifier call and without artifact.
C23_ZeroClausesFatal ==
    (segments = <<>> /\ pc \notin {"load", "health", "exit_health"}) =>
        /\ pc = "raised"
        /\ Generates = {}
        /\ Writes = {}
        /\ \A l \in Locations : written[l] = 0

\* C24: no artifact location is written more than once during a run.
C24_WriteOnce ==
    \A l \in Locations : written[l] <= 1

----------------------------------------------------------------------------
(* Reasoning spans *)

\* the text of a response outside its closed reasoning spans: a span runs from
\* an opening marker to the nearest closing marker after it
RECURSIVE OutsideSpans(_)
OutsideSpans(text) ==
    IF text = <<>> THEN <<>>
    ELSE IF Head(text) \in OpenTags /\ \E j \in 2..Len(text) : text[j] \in CloseTags
      THEN LET j == CHOOSE j \in 2..Len(text) :
                       text[j] \in CloseTags /\ \A m \in 2..(j - 1) : text[m] \notin CloseTags
           IN  OutsideSpans(SubSeq(text, j + 1, Len(text)))
    ELSE <<Head(text)>> \o OutsideSpans(Tail(text))

HasSpan(text) ==
    \E i, j \in 1..Len(text) : i < j /\ text[i] \in OpenTags /\ text[j] \in CloseTags

\* C25: every response is parsed as its text outside the reasoning spans is:
\* the satisfaction set, the classified id and the fact map are those of the
\* response with its spans taken out.
C25_ThinkSpansStripped ==
    /\ (cls.kind = "satisfaction" /\ cls.reply.ok) =>
          satisfied_req_ids =
              classify_segment_satisfaction(Reply(OutsideSpans(cls.reply.text)), requirements)
    /\ (cls.kind = "classification" /\ cls.reply.ok) =>
          classified_id = classify_segment(Reply(OutsideSpans(cls.reply.text)), requirements)
    /\ (Extracted /\ out.req = ext.req /\ out.row = ext.seg) =>
          out.facts = IF variant = "lp"
                      THEN extract_facts_from_dpa(Reply(OutsideSpans(ext.reply.text))).facts
                      ELSE extract_facts_from_dpa_rcv(Reply(OutsideSpans(ext.reply.text)))
    /\ (cls.kind = "satisfaction" /\ cls.reply.ok
          /\ cls.reply.text = <<"<think>", "1", "</think>", "OTHER">>) => satisfied_req_ids = {}
    /\ (cls.kind = "classification" /\ cls.reply.ok
          /\ cls.reply.text = <<"<think>", "2", "</think>", NL, "1">>) => classified_id = "1"

\* a fact-extraction response whose reasoning span holds facts and whose text
\* outside the span is the sentinel has produced an artifact
C25_Witness ==
    /\ Extracted
    /\ out.req = ext.req /\ out.row = ext.seg
    /\ HasSpan(ext.reply.text)
    /\ Answer(OutsideSpans(ext.reply.text)) = <<"NO_FACTS">>
    /\ out.facts = <<>>

----------------------------------------------------------------------------
(* Order of the classifier calls *)

\* the positions of the log that hold the call of a kind for a row and a
\* requirement
Calls(kind, j, r) == { k \in 1..Len(log) : log[k] = <<"generate", kind, j, r>> }
CallsOfRow(kind, j) ==
    { k \in 1..Len(log) : log[k][1] = "generate" /\ log[k][2] = kind /\ log[k][3] = j }

\* the last classifier call ahead of position w of the log
LastCallBefore(w) ==
    LET before == { g \in Generates : g < w } IN
    CHOOSE g \in before : \A h \in before : h <= g

\* C26: one classification call per clause, ahead of the artifacts of the
\* clause; in classify-then-verify at most one extraction call per clause, for
\* the classified requirement, after the classification; in the
\* per-requirement variant one extraction call per pair, ahead of its artifact.
C26_CallsInOrder ==
    /\ \A w \in Writes :
          /\ \E g \in Generates : g < w
          /\ segments[log[LastCallBefore(w)][3]].ID = log[w][3]
    /\ variant = "direct" =>
          /\ \A g \in Generates : log[g][2] = "satisfaction"
          /\ \A j \in 1..Len(segments) : Cardinality(CallsOfRow("satisfaction", j)) <= 1
          /\ pc = "done" =>
                \A j \in 1..Len(segments) : Cardinality(CallsOfRow("satisfaction", j)) = 1
    /\ variant = "rcv" =>
          /\ \A j \in 1..Len(segments) :
                /\ Cardinality(CallsOfRow("classification", j)) <= 1
                /\ Cardinality(CallsOfRow("facts", j)) <= 1
                /\ \A f \in CallsOfRow("facts", j) :
                      \E c \in CallsOfRow("classification", j) : c < f
          /\ ext.kind = "facts" => (ext.seg = cls.seg /\ ext.req = classified_id)
          /\ pc = "done" =>
                \A j \in 1..Len(segments) : Cardinality(CallsOfRow("classification", j)) = 1
    /\ variant = "lp" =>
          /\ \A g \in Generates : log[g][2] = "facts"
          /\ \A j \in 1..Len(segments), k \in 1..Len(requirements) :
                Cardinality(Calls("facts", j, requirements[k].id)) <= 1
          /\ \A w \in Writes :
                /\ w > 1
                /\ log[w - 1][1] = "generate"
                /\ log[w - 1][4] = log[w][2]

\* classify-then-verify has finished a table of several rows, with an
\* extraction call made for one of them
C26_Witness ==
    /\ variant = "rcv"
    /\ pc = "done"
    /\ Len(segments) >= 2
    /\ \E j \in 1..Len(segments) : CallsOfRow("facts", j) # {}

----------------------------------------------------------------------------
(* Termination, health check *)

AllPairsWritten ==
    \A k \in 1..Len(requirements), j \in 1..Len(segments) :
        written[<<requirements[k].id, segments[j].ID>>] >= 1

\* C27: in the satisfaction-set and classify-then-verify variants the
\* processing of a non-empty clause table ends, with an artifact written for
\* every pair.
C27_TerminatesWithEveryPair ==
    (variant \in {"direct", "rcv"} /\ pc = "classify")
        ~> (pc = "done" /\ AllPairsWritten)

\* a run in which the classification of the last row failed has ended
C27_Witness ==
    /\ variant \in {"direct", "rcv"}
    /\ pc = "done"
    /\ cls.seg = Len(segments)
    /\ ~cls.reply.ok
    /\ AllPairsWritten

\* C28: with the classifier not running the run makes no classifier call and
\* writes nothing; in every run the health check stands ahead of the first
\* classifier call and the first write.
C28_HealthCheckGates ==
    /\ ~serverUp => (Generates = {} /\ Writes = {} /\ \A l \in Locations : written[l] = 0)
    /\ \A k \in Generates \cup Writes : \E h \in 1..(k - 1) : log[h] = <<"check_health">>
    /\ (~serverUp /\ \E h \in 1..Len(log) : log[h] = <<"check_health">>) => pc = "exit_health"

\* a run over a non-empty table has ended at the failed health check
C28_Witness ==
    /\ ~serverUp
    /\ segments # <<>>
    /\ pc = "exit_health"

----------------------------------------------------------------------------
(* The assemblers of the three scripts *)

\* the text of an artifact ahead of the title of its facts section and from
\* the title of its mapping section on
OutsideFacts(lp_content) ==
    LET t == CHOOSE k \in 1..Len(lp_content) :
                /\ <<lp_content[k]>> \in FactsTitles
                /\ \A m \in 1..(k - 1) : <<lp_content[m]>> \notin FactsTitles
        e == CHOOSE k \in (t + 1)..Len(lp_content) :
                /\ <<lp_content[k]>> = MappingTitle
                /\ \A m \in (t + 1)..(k - 1) : <<lp_content[m]>> # MappingTitle
    IN  <<SubSeq(lp_content, 1, t - 1), SubSeq(lp_content, e, Len(lp_content))>>

\* C29: on the same texts, rule and fact map the two generate_lp_file return
\* the same text, and generate_symbolic_lp_file returns a text that differs
\* from it only inside the facts section.
C29_SameAssembler ==
    HasNormativeLayer =>
        LET lp == generate_lp_file(out.symbolic, out.facts, OutRequirement.atoms,
                                   OutRequirement.text, OutSentence)
            rcv == generate_lp_file_rcv(OutSentence, OutRequirement.text, out.symbolic,
                                        out.facts, OutRequirement.atoms)
            frame == OutsideFacts(lp)
        IN  /\ lp = rcv
            /\ out.shape = "lp" => out.lp_content = lp
            /\ \A is_satisfied \in BOOLEAN :
                  OutsideFacts(generate_symbolic_lp_file(OutSentence, OutRequirement.text,
                                  out.symbolic, OutRequirement.atoms, is_satisfied))
                    = frame

\* classify-then-verify has written an artifact with facts for a two-line
\* clause text
C29_Witness ==
    /\ variant = "rcv"
    /\ out.shape = "lp"
    /\ out.facts # <<>>
    /\ Len(split(OutSentence, NL)) = 2
    /\ OutRequirement.text # OutSentence

----------------------------------------------------------------------------
(* Rendered facts *)

\* `pred.` or `-pred.` for a non-empty pred that does not begin with `-`
WellFormedFact(line) ==
    /\ Len(line) >= 2
    /\ line[Len(line)] = "."
    /\ LET body == SubSeq(line, 1, Len(line) - 1)
           pred == IF Head(body) = "-" THEN Tail(body) ELSE body
       IN  pred # <<>> /\ Head(pred) # "-"

\* C30: every fact line of an artifact of the fact-extraction variants names
\* a non-empty predicate.
C30_FactsNameAPredicate ==
    out.shape = "lp" =>
        \A k \in 1..Len(FactLines(out.lp_content)) :
            WellFormedFact(FactLines(out.lp_content)[k])

====
